---- MODULE Spec2Model ----
(***************************************************************************)
(* Verification model of the chromatograph peak analysis and hybrid        *)
(* ranking code (src/src/peak_analyzer.py, src/src/visual_search.py).      *)
(*                                                                         *)
(* Fixed point: heights, positions and similarity factors are integers     *)
(* in thousandths (0.05 is 50); raw intensities are integer grey levels    *)
(* (0..255); the ratio threshold is in tenths (2.5 is 25) and the hybrid   *)
(* weights are in hundredths (0.6 is 60).                                  *)
(*                                                                         *)
(* The specifications share the variables:                                 *)
(*   SpecAnalyze  PeakAnalyzer.analyze_image, one step per ladder rung     *)
(*   SpecSession  successive analyze_image calls on the shared analyzer    *)
(*   SpecFilter   PeakAnalyzer.is_clinically_similar on drawn records      *)
(*   SpecScore    PeakAnalyzer.calculate_peak_similarity on drawn records  *)
(*   Spec         VisualSearchEngine.search_similar_with_peaks             *)
(*   SpecApi      the handler of POST /api/visual-search (src/src/api.py)  *)
(*   SpecLabels   the filter and the score on records with other labels    *)
(***************************************************************************)
EXTENDS Integers, Sequences, FiniteSets, TLC

VARIABLES
    \* ---- analyze_image ----
    apc,          \* position in analyze_image
    image,        \* the image under analysis
    peak_info,    \* the local peak_info (with detection_mode)
    attempted,    \* rungs run so far, in order, with the peak count each gave
    features,     \* the returned feature record (NoFeatures before return)
    label_scene,  \* what the label-reading block met in this call
    \* ---- is_clinically_similar ----
    fpc,          \* "input" before the two calls, "done" after
    features1,    \* first  FeatureRecord
    features2,    \* second FeatureRecord
    thresholds,   \* [ratio |-> max_concentration_ratio, count |-> max_peak_count_diff]
    verdict12,    \* is_clinically_similar(features1, features2, ...)
    verdict21,    \* is_clinically_similar(features2, features1, ...)
    \* ---- search_similar_with_peaks ----
    rpc,              \* position in search_similar_with_peaks
    req,              \* the call's arguments and the collection it runs against
    initial_results,  \* candidate ids returned by search_similar, nearest first
    query_features,   \* analyze_image(query_image)
    idx,              \* index of the loop in progress
    hybrid_results,   \* (result_with_scores, score) entries
    tasks,            \* (result, score, task, image_file) with the state of each call
    filtered_results, \* entries kept by the screening stage
    final_results,    \* the returned list
    started,          \* screening calls started so far, per candidate id
    verdicts,         \* per candidate id, what the hard filter said of (query, candidate)
    scored,           \* candidate ids calculate_peak_similarity was invoked for
    \* ---- calculate_peak_similarity ----
    spc,              \* "input" before the call, "done" after
    cfeatures1,       \* first  FeatureRecord
    cfeatures2,       \* second FeatureRecord
    similarity,       \* (total_score, details) of the call
    similarity21,     \* the same for the call with the two records swapped
    \* ---- the visual-search endpoint (api.py) ----
    hpc,              \* position in the handler
    visual_engine,    \* the module's engine: "engine", or "None" when its start-up failed
    upload,           \* the request: the file and the query parameters
    exc,              \* the exception raised inside the handler's try block
    rendered_page,    \* the PDF page rendered for the query (None: no page)
    response,         \* the HTTP response
    \* ---- a session on the shared analyzer ----
    peak_analyzer,    \* the module's _peak_analyzer: "None" or "PeakAnalyzer"
    calls,            \* analyze_image calls returned so far
    returned,         \* per image, what its first analysis returned
    \* ---- the comparisons on records with other printed labels ----
    lpc,              \* "input", "relabelled" after the first comparison, "done"
    lfeatures1,       \* first  FeatureRecord, with its labels
    lfeatures2,       \* second FeatureRecord, with its labels
    relabel,          \* the labels the two records carry in the second comparison
    compared,         \* filter verdict and scores of (lfeatures1, lfeatures2)
    recompared        \* the same for the two records with the labels of relabel

avars == <<apc, image, peak_info, attempted, features, label_scene>>
fvars == <<fpc, features1, features2, thresholds, verdict12, verdict21>>
rvars == <<rpc, req, initial_results, query_features, idx, hybrid_results, tasks,
           filtered_results, final_results, started, verdicts, scored>>
svars == <<spc, cfeatures1, cfeatures2, similarity, similarity21>>
pvars == <<hpc, visual_engine, upload, exc, rendered_page, response>>
nvars == <<peak_analyzer, calls, returned>>
lvars == <<lpc, lfeatures1, lfeatures2, relabel, compared, recompared>>

Max2(a, b) == IF a >= b THEN a ELSE b
Min2(a, b) == IF a <= b THEN a ELSE b
Abs(a)     == IF a >= 0 THEN a ELSE -a

RECURSIVE SumSeq(_)
SumSeq(s) == IF s = <<>> THEN 0 ELSE Head(s) + SumSeq(Tail(s))

(***************************************************************************)
(* Input space of analyze_image.  An image is a row of blobs; what the     *)
(* library calls (column mean, gaussian_filter1d, scipy find_peaks /       *)
(* peak_widths) make of a blob under a given smoothing sigma is its        *)
(* appearance: a local maximum with raw level, raw prominence and          *)
(* half-height width, or nothing.                                          *)
(***************************************************************************)
MaxBlobs == 4          \* blobs per image
SignalLength == 240    \* samples in the profile (image width)
BaseLevel == 10        \* raw grey level of the flat background

BlobKinds == {"none", "major", "minor", "small", "spike", "hump"}

\* What a blob looks like in the profile smoothed with sigma (in tenths: 20 is
\* the default 2.0, 10 the lighter 1.0, 30 the heavier 3.0): rise above the
\* background, prominence (raw levels) and half-height width (samples).
NoMax == [rise |-> 0, prom |-> 0, width |-> 0]
Appearance(kind, sigma) ==
    CASE kind = "major" -> [rise |-> 200, prom |-> 190,
                            width |-> IF sigma = 30 THEN 12 ELSE 10]
      [] kind = "minor" -> [rise |-> 16, prom |-> 14,
                            width |-> IF sigma = 10 THEN 3 ELSE 4]
      [] kind = "small" -> IF sigma = 30 THEN NoMax
                           ELSE [rise |-> 6, prom |-> 5, width |-> 2]
      [] kind = "spike" -> IF sigma = 10 THEN [rise |-> 4, prom |-> 3, width |-> 1]
                           ELSE IF sigma = 20 THEN [rise |-> 3, prom |-> 2, width |-> 1]
                           ELSE NoMax
      [] kind = "hump"  -> IF sigma = 30 THEN [rise |-> 5, prom |-> 2, width |-> 9]
                           ELSE NoMax
      [] OTHER          -> NoMax

\* horizontal position of blob slot i: 30, 70, 110, 116, 190, ... (every
\* fourth slot sits 6 samples after the third)
SlotPos(i) == IF i % 4 = 0 THEN 40 * (i - 1) - 4 ELSE 40 * i - 10

Images == [1..MaxBlobs -> BlobKinds]

\* extract_signal_profile: the smoothed column-mean profile, given by its
\* extremes, its mean and its local maxima from left to right.
RECURSIVE MaximaFrom(_, _, _)
MaximaFrom(img, sigma, i) ==
    IF i > Len(img) THEN <<>>
    ELSE LET a == Appearance(img[i], sigma)
         IN  (IF a.rise > 0
              THEN <<[pos |-> SlotPos(i), rise |-> a.rise,
                      prom |-> a.prom, width |-> a.width]>>
              ELSE <<>>) \o MaximaFrom(img, sigma, i + 1)

RECURSIVE MaxRise(_)
MaxRise(m) == IF m = <<>> THEN 0 ELSE Max2(Head(m).rise, MaxRise(Tail(m)))

RECURSIVE AreaSum(_)
AreaSum(m) == IF m = <<>> THEN 0 ELSE Head(m).rise * Head(m).width + AreaSum(Tail(m))

extract_signal_profile(img, sigma) ==
    LET m == MaximaFrom(img, sigma, 1)
    IN  [lo     |-> BaseLevel,
         hi     |-> BaseLevel + MaxRise(m),
         mean   |-> BaseLevel + (AreaSum(m) \div SignalLength),
         length |-> SignalLength,
         maxima |-> m]

(***************************************************************************)
(* detect_peaks_from_signal                                                *)
(***************************************************************************)
\* signal = (signal - min) / (max + 1e-6), after the subtraction max is the
\* range; the value in thousandths, rounded down.  The 1e-6 keeps every
\* value strictly below its exact quotient.
Normalized(rise, range) == IF rise = 0 THEN 0 ELSE (1000 * rise - 1) \div range

\* normalized value >= t/1000, exactly: rise/(range + 1e-6) >= t/1000
AtLeast(rise, range, t) == 1000 * rise > t * range

\* scipy _select_by_peak_distance: highest peaks first (the rightmost first
\* among equals), each kept peak removes the undecided ones closer than dist.
Priority(m, S) ==
    CHOOSE j \in S : \A k \in S :
        \/ m[j].rise > m[k].rise
        \/ (m[j].rise = m[k].rise /\ j >= k)

RECURSIVE SelectByDistance(_, _, _, _)
SelectByDistance(m, undecided, kept, dist) ==
    IF undecided = {} THEN kept
    ELSE LET j == Priority(m, undecided)
             near == {k \in undecided : Abs(m[k].pos - m[j].pos) < dist}
         IN  SelectByDistance(m, undecided \ (near \cup {j}), kept \cup {j}, dist)

\* scipy find_peaks(signal, prominence, distance, width, height): indices of
\* the maxima that pass the height, distance, prominence and width
\* conditions, in that order of evaluation, returned in ascending order.
RECURSIVE AscendingSeq(_)
AscendingSeq(S) ==
    IF S = {} THEN <<>>
    ELSE LET j == CHOOSE x \in S : \A y \in S : x <= y
         IN  <<j>> \o AscendingSeq(S \ {j})

find_peaks(sig, prominence, height, distance, width) ==
    LET m     == sig.maxima
        range == sig.hi - sig.lo
        high  == {j \in 1..Len(m) : AtLeast(m[j].rise, range, height)}
        apart == SelectByDistance(m, high, {}, distance)
        prom  == {j \in apart : AtLeast(m[j].prom, range, prominence)}
        wide  == {j \in prom : m[j].width >= width}
    IN  AscendingSeq(wide)

\* np.argsort(peaks): the permutation that orders the peaks by position
\* (stable insertion of each index).
RECURSIVE InsertByPos(_, _, _)
InsertByPos(m, j, s) ==
    IF s = <<>> THEN <<j>>
    ELSE IF m[j].pos < m[Head(s)].pos THEN <<j>> \o s
    ELSE <<Head(s)>> \o InsertByPos(m, j, Tail(s))

RECURSIVE ArgsortUpTo(_, _)
ArgsortUpTo(m, p) ==
    IF p = <<>> THEN <<>>
    ELSE InsertByPos(m, p[Len(p)], ArgsortUpTo(m, SubSeq(p, 1, Len(p) - 1)))

argsortDescending(m, p) ==
    LET a == ArgsortUpTo(m, p)
    IN  [i \in 1..Len(a) |-> a[Len(a) + 1 - i]]
argsort(m, p) == ArgsortUpTo(m, p)

detect_peaks_from_signal(sig, prominence, height, distance, width) ==
    LET m        == sig.maxima
        range    == sig.hi - sig.lo
        peaks    == find_peaks(sig, prominence, height, distance, width)
        sort_idx == argsort(m, peaks)
        n        == Len(sort_idx)
    IN  [num_peaks     |-> n,
         positions     |-> [i \in 1..n |-> m[sort_idx[i]].pos],
         heights       |-> [i \in 1..n |-> Normalized(m[sort_idx[i]].rise, range)],
         widths        |-> [i \in 1..n |-> m[sort_idx[i]].width],
         areas         |-> [i \in 1..n |->
                              Normalized(m[sort_idx[i]].rise, range) * m[sort_idx[i]].width],
         signal_length |-> sig.length]

(***************************************************************************)
(* analyze_image: the five-rung ladder, one action per rung                *)
(***************************************************************************)
MinPeaks == 3

NoPeakInfo == [num_peaks |-> 0, positions |-> <<>>, heights |-> <<>>,
               widths |-> <<>>, areas |-> <<>>, signal_length |-> 0,
               detection_mode |-> "none"]
NoFeatures == [detection_mode |-> "none"]

ModeOf(k) ==
    CASE k = 1 -> "strict"
      [] k = 2 -> "sensitive"
      [] k = 3 -> "very_sensitive"
      [] k = 4 -> "ultra_sensitive"
      [] k = 5 -> "ultra_sensitive_wide"

\* the parameters each rung passes to detect_peaks_from_signal, and the
\* smoothing of the profile it runs on
RungParams(k) ==
    CASE k = 1 -> [sigma |-> 20, prominence |-> 150, height |-> 100, distance |-> 20, width |-> 5]
      [] k = 2 -> [sigma |-> 20, prominence |-> 50,  height |-> 50,  distance |-> 15, width |-> 3]
      [] k = 3 -> [sigma |-> 20, prominence |-> 20,  height |-> 20,  distance |-> 8,  width |-> 2]
      [] k = 4 -> [sigma |-> 10, prominence |-> 10,  height |-> 10,  distance |-> 5,  width |-> 1]
      [] k = 5 -> [sigma |-> 30, prominence |-> 5,   height |-> 5,   distance |-> 4,  width |-> 1]

\* a rung that keeps the peaks found so far when it finds fewer itself
RunRungMerged(img, k) ==
    LET q == RungParams(k)
        d == detect_peaks_from_signal(extract_signal_profile(img, q.sigma),
                                      q.prominence, q.height, q.distance, q.width)
    IN  IF d.num_peaks < peak_info.num_peaks
        THEN [peak_info EXCEPT !.detection_mode = ModeOf(k)]
        ELSE [num_peaks |-> d.num_peaks, positions |-> d.positions, heights |-> d.heights,
              widths |-> d.widths, areas |-> d.areas, signal_length |-> d.signal_length,
              detection_mode |-> ModeOf(k)]

\* peak_info = self.detect_peaks_from_signal(...); peak_info['detection_mode'] = ...
RunRungReuse(img, k) ==
    IF k = 1 /\ peak_info.detection_mode # "none"
    THEN [peak_info EXCEPT !.detection_mode = ModeOf(1)]
    ELSE LET q == RungParams(k)
             d == detect_peaks_from_signal(extract_signal_profile(img, q.sigma),
                                           q.prominence, q.height, q.distance, q.width)
         IN  [num_peaks |-> d.num_peaks, positions |-> d.positions, heights |-> d.heights,
              widths |-> d.widths, areas |-> d.areas, signal_length |-> d.signal_length,
              detection_mode |-> ModeOf(k)]
RunRung(img, k) ==
    LET q == RungParams(k)
        d == detect_peaks_from_signal(extract_signal_profile(img, q.sigma),
                                      q.prominence, q.height, q.distance, q.width)
    IN  [num_peaks |-> d.num_peaks, positions |-> d.positions, heights |-> d.heights,
         widths |-> d.widths, areas |-> d.areas, signal_length |-> d.signal_length,
         detection_mode |-> ModeOf(k)]

\* if peak_info['num_peaks'] < 3:
TooFewLoose(info) == info.num_peaks < MinPeaks - 1
TooFewEager(info) == info.num_peaks <= MinPeaks
TooFew(info) == info.num_peaks < MinPeaks

\* lines 199-205 and 248-253: the record analyze_image builds around peak_info
BuildFeatures(img, info) ==
    LET signal == extract_signal_profile(img, 20)
    IN  [num_peaks            |-> info.num_peaks,
         positions            |-> info.positions,
         heights              |-> info.heights,
         widths               |-> info.widths,
         areas                |-> info.areas,
         signal_length        |-> info.signal_length,
         detection_mode       |-> info.detection_mode,
         mean_intensity       |-> signal.mean,
         normalized_positions |->
             IF info.num_peaks > 0
             THEN [i \in 1..Len(info.positions) |->
                      (1000 * info.positions[i]) \div info.signal_length]
             ELSE <<>>]

(***************************************************************************)
(* analyze_image, lines 207-246: reading the printed A2 / F labels         *)
(***************************************************************************)
\* None, among non-negative numbers
None == -1

\* What the block meets: the binarisation (cv2.adaptiveThreshold) or the
\* recognition (pytesseract.image_to_string) raises, or the four regions
\* give text.  In the text a label is "absent", "printed" as on a report
\* (A2 Concentration 2.5 %) or "backslashed" (the digits are followed by
\* backslashes: 2\5\).
LabelTexts == {"absent", "printed", "backslashed"}
NoScene == [ocr |-> "none", a2 |-> "absent", f |-> "absent"]
PrintedScene == [ocr |-> "ok", a2 |-> "printed", f |-> "printed"]
OcrScenes ==
    {[ocr |-> "threshold_raises", a2 |-> "printed", f |-> "printed"],
     [ocr |-> "ocr_raises", a2 |-> "printed", f |-> "printed"]}
    \cup [ocr : {"ok"}, a2 : LabelTexts, f : LabelTexts]

\* re.search with the patterns of lines 232-238: written as raw strings with
\* doubled backslashes, each pattern asks for a literal backslash after the
\* digits, inside the group and after it
Matches(text) == text = "backslashed"

\* float(match.group(1)): the group holds the backslash, float raises
\* ValueError on it; a plain number would be returned in tenths
FloatOf(text) ==
    IF text = "backslashed" THEN [raised |-> TRUE, value |-> None]
    ELSE [raised |-> FALSE, value |-> 25]

\* the body of the try block: the locals a2_val and f_val when it ends, and
\* whether it ended by an exception
TryLabels(scene) ==
    IF scene.ocr # "ok"
    THEN [raised |-> TRUE, a2_val |-> None, f_val |-> None]
    ELSE LET a2_match == Matches(scene.a2)
             f_match  == Matches(scene.f)
             a2       == IF a2_match THEN FloatOf(scene.a2)
                         ELSE [raised |-> FALSE, value |-> None]
             fv       == IF f_match THEN FloatOf(scene.f)
                         ELSE [raised |-> FALSE, value |-> None]
         IN  IF a2.raised
             THEN [raised |-> TRUE, a2_val |-> None, f_val |-> None]
             ELSE IF fv.raised
             THEN [raised |-> TRUE, a2_val |-> a2.value, f_val |-> None]
             ELSE [raised |-> FALSE, a2_val |-> a2.value, f_val |-> fv.value]

\* try: ... except Exception: pass
ReadLabelsUncaught(scene) == TryLabels(scene)
ReadLabels(scene) ==
    LET t == TryLabels(scene)
    IN  [raised |-> FALSE, a2_val |-> t.a2_val, f_val |-> t.f_val]

\* features['a2_concentration'] = a2_val; features['f_concentration'] = f_val
WithLabels(f, labels) ==
    [num_peaks            |-> f.num_peaks,
     positions            |-> f.positions,
     heights              |-> f.heights,
     widths               |-> f.widths,
     areas                |-> f.areas,
     signal_length        |-> f.signal_length,
     detection_mode       |-> f.detection_mode,
     mean_intensity       |-> f.mean_intensity,
     a2_concentration     |-> labels.a2_val,
     f_concentration      |-> labels.f_val,
     normalized_positions |-> f.normalized_positions]

(***************************************************************************)
(* is_clinically_similar: the hard filter                                  *)
(***************************************************************************)
\* np.pad(heights, (0, max_len - len(heights))): zeros appended up to max_len
PadZeros(h, max_len) ==
    [i \in 1..Max2(Len(h), max_len) |-> IF i <= Len(h) THEN h[i] ELSE 0]

\* one pass of the loop body, lines 288-313, for the pair (h1, h2):
\* "skip" (continue), "reject" (return False) or "pass" (fall through)
PairVerdictOneSided(h1, h2, max_concentration_ratio) ==
    IF h1 < 50 /\ h2 < 50 THEN "skip"
    ELSE IF (h1 < 10 /\ h2 < 150) \/ (h2 < 10 /\ h1 < 150) THEN "skip"
    ELSE IF h2 < 10
         THEN IF h1 < 200 THEN "skip"
              ELSE IF 1000 > max_concentration_ratio THEN "reject" ELSE "pass"
         ELSE IF 10 * h1 > max_concentration_ratio * h2 THEN "reject" ELSE "pass"

PairVerdict(h1, h2, max_concentration_ratio) ==
    IF h1 < 50 /\ h2 < 50 THEN "skip"
    ELSE IF (h1 < 10 /\ h2 < 150) \/ (h2 < 10 /\ h1 < 150) THEN "skip"
    ELSE IF Min2(h1, h2) < 10
         THEN IF Max2(h1, h2) < 200 THEN "skip"
              \* ratio = 100.0
              ELSE IF 1000 > max_concentration_ratio THEN "reject" ELSE "pass"
         \* ratio = max(h1, h2) / min(h1, h2) > max_concentration_ratio
         ELSE IF 10 * Max2(h1, h2) > max_concentration_ratio * Min2(h1, h2)
              THEN "reject" ELSE "pass"

\* index of the first pair the loop rejects, 0 when it runs to the end (the
\* index counts from 1, as the "Peak #{i+1}" of the reason does)
FirstRejectFromEnd(heights1, heights2, i, max_concentration_ratio) ==
    LET rejected == {j \in i..Min2(Len(heights1), Len(heights2)) :
                        PairVerdict(heights1[j], heights2[j], max_concentration_ratio) = "reject"}
    IN  IF rejected = {} THEN 0
        ELSE CHOOSE j \in rejected : \A k \in rejected : k <= j
RECURSIVE FirstReject(_, _, _, _)
FirstReject(heights1, heights2, i, max_concentration_ratio) ==
    IF i > Len(heights1) \/ i > Len(heights2) THEN 0
    ELSE IF PairVerdict(heights1[i], heights2[i], max_concentration_ratio) = "reject" THEN i
    ELSE FirstReject(heights1, heights2, i + 1, max_concentration_ratio)

Similar == [ok |-> TRUE, why |-> "Clinically similar", peak |-> 0, h1 |-> 0, h2 |-> 0]
NoVerdict == [ok |-> FALSE, why |-> "none", peak |-> 0, h1 |-> 0, h2 |-> 0]

\* a filter that also turns down two records whose printed A2 values are more
\* than one percentage point apart
is_clinically_similar_by_label(f1, f2, max_concentration_ratio, max_peak_count_diff) ==
    IF /\ f1.a2_concentration # None /\ f2.a2_concentration # None
       /\ Abs(f1.a2_concentration - f2.a2_concentration) > 10
    THEN [ok |-> FALSE, why |-> "concentration too different", peak |-> 0,
          h1 |-> f1.a2_concentration, h2 |-> f2.a2_concentration]
    ELSE IF Abs(f1.num_peaks - f2.num_peaks) > max_peak_count_diff
    THEN [ok |-> FALSE, why |-> "Peak count too different", peak |-> 0,
          h1 |-> f1.num_peaks, h2 |-> f2.num_peaks]
    ELSE IF f1.num_peaks > 0 /\ f2.num_peaks > 0
    THEN LET max_len  == Max2(Len(f1.heights), Len(f2.heights))
             heights1 == PadZeros(f1.heights, max_len)
             heights2 == PadZeros(f2.heights, max_len)
             i        == FirstReject(heights1, heights2, 1, max_concentration_ratio)
         IN  IF i > 0
             THEN [ok |-> FALSE, why |-> "concentration too different", peak |-> i,
                   h1 |-> heights1[i], h2 |-> heights2[i]]
             ELSE Similar
    ELSE Similar

is_clinically_similar(f1, f2, max_concentration_ratio, max_peak_count_diff) ==
    IF Abs(f1.num_peaks - f2.num_peaks) > max_peak_count_diff
    THEN [ok |-> FALSE, why |-> "Peak count too different", peak |-> 0,
          h1 |-> f1.num_peaks, h2 |-> f2.num_peaks]
    ELSE IF f1.num_peaks > 0 /\ f2.num_peaks > 0
    THEN LET max_len  == Max2(Len(f1.heights), Len(f2.heights))
             heights1 == PadZeros(f1.heights, max_len)
             heights2 == PadZeros(f2.heights, max_len)
             i        == FirstReject(heights1, heights2, 1, max_concentration_ratio)
         IN  IF i > 0
             THEN [ok |-> FALSE, why |-> "concentration too different", peak |-> i,
                   h1 |-> heights1[i], h2 |-> heights2[i]]
             ELSE Similar
    ELSE Similar

(***************************************************************************)
(* calculate_peak_similarity: factors in thousandths, total in 1e-5        *)
(***************************************************************************)
\* np.pad(pos, (0, max_len - len(pos)), constant_values=999), in thousandths
Sentinel == 999 * 1000
PadSentinel(p, max_len) ==
    [i \in 1..Max2(Len(p), max_len) |-> IF i <= Len(p) THEN p[i] ELSE Sentinel]

\* lines 339-347
NumPeaksSimShifted(n1, n2) ==
    LET num_diff == Abs(n1 - n2)
    IN  IF num_diff = 0 THEN 800
        ELSE IF num_diff = 1 THEN 600
        ELSE 400
NumPeaksSim(n1, n2) ==
    LET num_diff == Abs(n1 - n2)
    IN  IF num_diff = 0 THEN 1000
        ELSE IF num_diff = 1 THEN 800
        ELSE IF num_diff = 2 THEN 600
        ELSE 400

\* a ratio that divides the first height by the second
HeightPairSimOneSided(h1, h2) ==
    IF h1 < 10 /\ h2 < 10 THEN 1000
    ELSE IF 2 * h1 <= 3 * h2 THEN 1000
    ELSE IF h1 <= 2 * h2 THEN 850
    ELSE IF h1 <= 3 * h2 THEN 600
    ELSE 300

\* lines 365-380; ratio = max / (min + 1e-6), so "ratio < 1.5" holds up to
\* and including max = 1.5 min
HeightPairSim(h1, h2) ==
    IF h1 < 10 /\ h2 < 10 THEN 1000
    ELSE LET hi == Max2(h1, h2)
             lo == Min2(h1, h2)
         IN  IF 2 * hi <= 3 * lo THEN 1000
             ELSE IF hi <= 2 * lo THEN 850
             ELSE IF hi <= 3 * lo THEN 600
             ELSE 300

\* the bins without the one at 0.95
PosPairSimCoarse(p1, p2) ==
    IF p1 = Sentinel \/ p2 = Sentinel THEN 500
    ELSE LET d == Abs(p1 - p2) * 10
         IN  IF d < 200 THEN 1000
             ELSE IF d < 400 THEN 850
             ELSE IF d < 600 THEN 600
             ELSE 300

\* lines 403-420; approx_time_diff = abs(p1 - p2) * 10.0
PosPairSim(p1, p2) ==
    IF p1 = Sentinel \/ p2 = Sentinel THEN 500
    ELSE LET d == Abs(p1 - p2) * 10
         IN  IF d < 100 THEN 1000
             ELSE IF d < 200 THEN 950
             ELSE IF d < 400 THEN 850
             ELSE IF d < 600 THEN 600
             ELSE 300

\* np.mean of a non-empty list, rounded down to the thousandth
Mean(sims) == SumSeq(sims) \div Len(sims)

\* np.exp(-intensity_diff * 2) for a difference of whole grey levels,
\* rounded down to the thousandth
ExpPos2(d) ==
    IF d = 0 THEN 1000
    ELSE IF d = 1 THEN 7389
    ELSE 54598
ExpNeg2(d) ==
    IF d = 0 THEN 1000
    ELSE IF d = 1 THEN 135
    ELSE IF d = 2 THEN 18
    ELSE IF d = 3 THEN 2
    ELSE 0

EitherHasPeaks(f1, f2) == f1.num_peaks > 0 \/ f2.num_peaks > 0

\* "if features1['num_peaks'] > 0 and features2['num_peaks'] > 0", lines
\* 351 and 390
BothHavePeaks(f1, f2) == f1.num_peaks > 0 /\ f2.num_peaks > 0

calculate_peak_similarity(f1, f2) ==
    LET both          == BothHavePeaks(f1, f2)
        max_len       == Max2(Len(f1.heights), Len(f2.heights))
        heights1      == PadZeros(f1.heights, max_len)
        heights2      == PadZeros(f2.heights, max_len)
        pos1          == PadSentinel(f1.normalized_positions, max_len)
        pos2          == PadSentinel(f2.normalized_positions, max_len)
        num_peaks_sim == NumPeaksSim(f1.num_peaks, f2.num_peaks)
        height_sim    == IF both
                         THEN Mean([i \in 1..max_len |-> HeightPairSim(heights1[i], heights2[i])])
                         ELSE 0
        pos_sim       == IF both
                         THEN Mean([i \in 1..max_len |-> PosPairSim(pos1[i], pos2[i])])
                         ELSE 0
        intensity_sim == ExpNeg2(Abs(f1.mean_intensity - f2.mean_intensity))
    IN  [total          |-> 15 * num_peaks_sim + 35 * height_sim
                            + 35 * pos_sim + 15 * intensity_sim,
         num_peaks      |-> num_peaks_sim,
         heights        |-> height_sim,
         retention_time |-> pos_sim,
         intensity      |-> intensity_sim]

\* analyze_image as a function of the image: the ladder of lines 150-197
RECURSIVE Ladder(_, _, _)
Ladder(img, k, info) ==
    IF k > 5 THEN info
    ELSE Ladder(img, k + 1, IF TooFew(info) THEN RunRung(img, k) ELSE info)

\* the stored chromatographs carry their labels as printed
analyze_image(img) ==
    WithLabels(BuildFeatures(img, Ladder(img, 2, RunRung(img, 1))),
               ReadLabels(PrintedScene))

\* ---- records and thresholds the filter is exercised on ----
MaxPeaks == 2
HeightVals == {5, 30, 80, 170, 300, 900}
RatioThresholds == {25, 100}
CountThresholds == {1, 3}

HeightSeqs == UNION {[1..n -> HeightVals] : n \in 0..MaxPeaks}

\* a FeatureRecord with the given heights: peaks 40 samples apart in a
\* profile of SignalLength samples
RecordOf(h) ==
    [num_peaks            |-> Len(h),
     positions            |-> [i \in 1..Len(h) |-> 40 * i - 10],
     heights              |-> h,
     widths               |-> [i \in 1..Len(h) |-> 4],
     areas                |-> [i \in 1..Len(h) |-> 4 * h[i]],
     signal_length        |-> SignalLength,
     detection_mode       |-> "strict",
     mean_intensity       |-> BaseLevel,
     normalized_positions |-> [i \in 1..Len(h) |-> (1000 * (40 * i - 10)) \div SignalLength]]

FilterIdle ==
    /\ fpc = "idle"
    /\ features1 = NoFeatures /\ features2 = NoFeatures
    /\ thresholds = [ratio |-> 0, count |-> 0]
    /\ verdict12 = NoVerdict
    /\ verdict21 = NoVerdict

NoRequest == [top_k |-> 0, weights_given |-> FALSE, clip_weight |-> 0, peak_weight |-> 0,
              llm_screen |-> FALSE, input |-> "none", intact |-> FALSE,
              query |-> <<>>, collection |-> "none"]

RankIdle ==
    /\ rpc = "idle"
    /\ req = NoRequest
    /\ initial_results = <<>>
    /\ query_features = NoFeatures
    /\ idx = 0
    /\ hybrid_results = <<>>
    /\ tasks = <<>>
    /\ filtered_results = <<>>
    /\ final_results = <<>>
    /\ started = <<>>
    /\ verdicts = <<>>
    /\ scored = {}

NoSimilarity == [total |-> 0, num_peaks |-> 0, heights |-> 0,
                 retention_time |-> 0, intensity |-> 0]

NoUpload == [file |-> "none", pages |-> 0, top_k |-> 0, llm_screen |-> FALSE,
             page_number |-> 0]
NoException == [type |-> "none", status_code |-> 0, detail |-> "none"]
NoResponse == [status_code |-> 0, detail |-> "none"]

ApiIdle ==
    /\ hpc = "idle"
    /\ visual_engine = "None"
    /\ upload = NoUpload
    /\ exc = NoException
    /\ rendered_page = None
    /\ response = NoResponse

SessionIdle ==
    /\ peak_analyzer = "None"
    /\ calls = 0
    /\ returned = <<>>

NoComparison == [is_similar |-> FALSE, reason |-> "none", peak_sim |-> 0,
                 peak_details |-> NoSimilarity, hybrid_score |-> 0]

LabelsIdle ==
    /\ lpc = "idle"
    /\ lfeatures1 = NoFeatures /\ lfeatures2 = NoFeatures
    /\ relabel = <<>>
    /\ compared = NoComparison
    /\ recompared = NoComparison

ScoreIdle ==
    /\ spc = "idle"
    /\ cfeatures1 = NoFeatures /\ cfeatures2 = NoFeatures
    /\ similarity = NoSimilarity
    /\ similarity21 = NoSimilarity

AnalyzeIdle ==
    /\ apc = "idle"
    /\ image = <<>>
    /\ peak_info = NoPeakInfo
    /\ attempted = <<>>
    /\ features = NoFeatures
    /\ label_scene = NoScene

InitAnalyze ==
    /\ apc = "rung1"
    /\ image \in Images
    /\ peak_info = NoPeakInfo
    /\ attempted = <<>>
    /\ features = NoFeatures
    /\ label_scene = NoScene
    /\ FilterIdle
    /\ RankIdle
    /\ ScoreIdle
    /\ ApiIdle
    /\ SessionIdle
    /\ LabelsIdle

\* lines 150-152: the strict pass always runs
Strict ==
    /\ apc = "rung1"
    /\ peak_info' = RunRung(image, 1)
    /\ attempted' = Append(attempted, [rung |-> 1, n |-> peak_info'.num_peaks])
    /\ apc' = "rung2"
    /\ UNCHANGED <<image, features, label_scene>>
    /\ UNCHANGED fvars
    /\ UNCHANGED <<rvars, svars, pvars, nvars, lvars>>

\* one "if peak_info['num_peaks'] < 3:" block, rung k, then on to nxt
Retry(k, nxt) ==
    /\ IF TooFew(peak_info)
       THEN /\ peak_info' = RunRung(image, k)
            /\ attempted' = Append(attempted, [rung |-> k, n |-> peak_info'.num_peaks])
       ELSE UNCHANGED <<peak_info, attempted>>
    /\ apc' = nxt
    /\ UNCHANGED <<image, features, label_scene>>
    /\ UNCHANGED fvars
    /\ UNCHANGED <<rvars, svars, pvars, nvars, lvars>>

Sensitive == apc = "rung2" /\ Retry(2, "rung3")

VerySensitive == apc = "rung3" /\ Retry(3, "rung4")

UltraSensitive == apc = "rung4" /\ Retry(4, "rung5")

UltraSensitiveWide == apc = "rung5" /\ Retry(5, "features")

\* lines 199-255: statistics, labels and normalized positions, then return;
\* an exception leaving the label block would leave analyze_image
Return ==
    /\ apc = "features"
    /\ \E scene \in OcrScenes :
          /\ label_scene' = scene
          /\ LET labels == ReadLabels(scene)
             IN  IF labels.raised
                 THEN /\ features' = NoFeatures
                      /\ apc' = "raised"
                 ELSE /\ features' = WithLabels(BuildFeatures(image, peak_info), labels)
                      /\ apc' = "done"
    /\ UNCHANGED <<image, peak_info, attempted>>
    /\ UNCHANGED fvars
    /\ UNCHANGED <<rvars, svars, pvars, nvars, lvars>>

NextAnalyze ==
    \/ Strict
    \/ Sensitive
    \/ VerySensitive
    \/ UltraSensitive
    \/ UltraSensitiveWide
    \/ Return

vars == <<avars, fvars, rvars, svars, pvars, nvars, lvars>>

SpecAnalyze == InitAnalyze /\ [][NextAnalyze]_vars

\* C2: when analyze_image returns, every rung k in 1..4 that ran and gave
\* fewer than 3 peaks was followed by a run of rung k+1.
C2_EscalatesOnTooFew ==
    apc = "done" =>
        \A i \in 1..Len(attempted) :
            (attempted[i].rung <= 4 /\ attempted[i].n < 3) =>
                /\ i < Len(attempted)
                /\ attempted[i + 1].rung = attempted[i].rung + 1

\* a run where rung 3 gave fewer than 3 peaks and rung 4 then ran
C2_Witness ==
    /\ apc = "done"
    /\ Len(attempted) >= 4
    /\ attempted[3].rung = 3 /\ attempted[3].n < 3
    /\ attempted[4].rung = 4

\* C3: the rungs run are 1..m in order, every rung before the last gave fewer
\* than 3 peaks, the last gave at least 3 or is rung 5, and the returned
\* detection_mode names the last rung.
C3_StopsAtFirstSufficientRung ==
    apc = "done" =>
        LET m == Len(attempted)
        IN  /\ m \in 1..5
            /\ \A i \in 1..m : attempted[i].rung = i
            /\ \A i \in 1..(m - 1) : attempted[i].n < 3
            /\ (attempted[m].n >= 3 \/ m = 5)
            /\ features.detection_mode = ModeOf(m)
            /\ features.num_peaks = attempted[m].n

\* a run that stopped at rung 2, which gave at least 3 peaks
C3_Witness ==
    /\ apc = "done"
    /\ Len(attempted) = 2
    /\ attempted[1].n < 3 /\ attempted[2].n >= 3
    /\ features.detection_mode = "sensitive"

\* C18: in every returned record, whichever rung gave it, the peak positions
\* are strictly increasing, and so are the normalized positions, each of
\* them position / signal length and within [0,1].
C18_PositionsIncreasing ==
    apc = "done" =>
        LET n == features.num_peaks
        IN  /\ Len(features.positions) = n
            /\ Len(features.normalized_positions) = n
            /\ \A i \in 1..(n - 1) :
                  /\ features.positions[i] < features.positions[i + 1]
                  /\ features.normalized_positions[i] < features.normalized_positions[i + 1]
            /\ \A i \in 1..n :
                  /\ features.normalized_positions[i] >= 0
                  /\ features.normalized_positions[i] <= 1000
                  /\ features.normalized_positions[i]
                        = (1000 * features.positions[i]) \div features.signal_length

\* four peaks returned by the fourth rung, two of them six samples apart
C18_Witness ==
    /\ apc = "done"
    /\ features.detection_mode = "ultra_sensitive"
    /\ features.num_peaks = 4
    /\ features.positions[4] - features.positions[3] = 6

\* ---- label reading ----
C16_Unreadable(scene, text) == scene.ocr # "ok" \/ (Matches(text) /\ FloatOf(text).raised)

\* C16: whatever the label block meets, analyze_image returns; a label that
\* could not be read (binarisation or recognition raised, or its matched
\* number does not parse) is None in the record, and the peaks, the
\* detection mode and the intensity statistics are those of the ladder,
\* the same for every outcome of the label block.
C16_LabelFailureSuppressed ==
    /\ apc # "raised"
    /\ apc = "done" =>
          /\ C16_Unreadable(label_scene, label_scene.a2) => features.a2_concentration = None
          /\ C16_Unreadable(label_scene, label_scene.f) => features.f_concentration = None
          /\ features.num_peaks = peak_info.num_peaks
          /\ features.positions = peak_info.positions
          /\ features.heights = peak_info.heights
          /\ features.widths = peak_info.widths
          /\ features.detection_mode = peak_info.detection_mode
          /\ features.mean_intensity = extract_signal_profile(image, 20).mean

\* recognition raised on an image with three peaks or more: the record is
\* returned with both labels None
C16_Witness ==
    /\ apc = "done"
    /\ label_scene.ocr = "ocr_raises"
    /\ features.num_peaks >= 3
    /\ features.a2_concentration = None /\ features.f_concentration = None

\* C27: the returned PeakSet is exactly what the last rung attempted, the
\* one detection_mode names, detects in the image; nothing an earlier rung
\* found is merged in, whatever the earlier rungs' peak counts were.
C27_LastRungOnly ==
    apc = "done" =>
        LET m == Len(attempted)
            q == RungParams(m)
            d == detect_peaks_from_signal(extract_signal_profile(image, q.sigma),
                                          q.prominence, q.height, q.distance, q.width)
        IN  /\ features.detection_mode = ModeOf(m)
            /\ features.num_peaks = d.num_peaks
            /\ features.positions = d.positions
            /\ features.heights = d.heights
            /\ features.widths = d.widths
            /\ features.areas = d.areas

\* a run whose returned peak count is below the count of an earlier rung
C27_Witness ==
    /\ apc = "done"
    /\ \E i \in 1..(Len(attempted) - 1) : attempted[i].n > features.num_peaks
    /\ features.num_peaks = attempted[Len(attempted)].n

(***************************************************************************)
(* SpecFilter: is_clinically_similar called both ways round                *)
(***************************************************************************)
InitFilter ==
    /\ fpc = "input"
    /\ \E a \in HeightSeqs : features1 = RecordOf(a)
    /\ \E b \in HeightSeqs : features2 = RecordOf(b)
    /\ thresholds \in [ratio : RatioThresholds, count : CountThresholds]
    /\ verdict12 = NoVerdict
    /\ verdict21 = NoVerdict
    /\ AnalyzeIdle
    /\ RankIdle
    /\ ScoreIdle
    /\ ApiIdle
    /\ SessionIdle
    /\ LabelsIdle

Compare ==
    /\ fpc = "input"
    /\ verdict12' = is_clinically_similar(features1, features2,
                                          thresholds.ratio, thresholds.count)
    /\ verdict21' = is_clinically_similar(features2, features1,
                                          thresholds.ratio, thresholds.count)
    /\ fpc' = "done"
    /\ UNCHANGED <<features1, features2, thresholds>>
    /\ UNCHANGED avars
    /\ UNCHANGED <<rvars, svars, pvars, nvars, lvars>>

NextFilter == Compare

SpecFilter == InitFilter /\ [][NextFilter]_vars

\* C1: is_clinically_similar(A, B) and is_clinically_similar(B, A) give the
\* same accept/reject verdict, for the same thresholds.
C1_FilterSymmetric ==
    fpc = "done" => verdict12.ok = verdict21.ok

\* peak counts differ, the shorter sequence is zero-padded, and the padded
\* pair is the one that rejects, both ways round
C1_Witness ==
    /\ fpc = "done"
    /\ features1.num_peaks < features2.num_peaks
    /\ features1.num_peaks > 0
    /\ ~verdict12.ok /\ ~verdict21.ok
    /\ verdict12.peak = features2.num_peaks
    /\ verdict12.h1 = 0 /\ verdict21.h2 = 0

\* ---- the filter's rule, pair by pair, as the contract words it ----
C11_Padded(h, n) == [i \in 1..n |-> IF i <= Len(h) THEN h[i] ELSE 0]
C11_Skipped(h1, h2) ==
    \/ (h1 < 50 /\ h2 < 50)
    \/ (h1 < 10 /\ h2 < 150) \/ (h2 < 10 /\ h1 < 150)
    \/ (Min2(h1, h2) < 10 /\ Max2(h1, h2) < 200)
C11_RatioExceeds(h1, h2, r) ==
    IF Min2(h1, h2) < 10 THEN 1000 > r
    ELSE 10 * Max2(h1, h2) > r * Min2(h1, h2)
C11_Offending(f1, f2, r) ==
    LET n == Max2(Len(f1.heights), Len(f2.heights))
        a == C11_Padded(f1.heights, n)
        b == C11_Padded(f2.heights, n)
    IN  {i \in 1..n : ~C11_Skipped(a[i], b[i]) /\ C11_RatioExceeds(a[i], b[i], r)}

\* C11 as stated: the filter rejects exactly when the peak counts differ by
\* more than max_peak_count_diff or some aligned pair of the zero-padded
\* height sequences is not skipped and has a ratio above
\* max_concentration_ratio, also when one record has no peaks; otherwise it
\* accepts with "Clinically similar".
C11_AsStated ==
    fpc = "done" =>
        /\ (~verdict12.ok) =
              (\/ Abs(features1.num_peaks - features2.num_peaks) > thresholds.count
               \/ C11_Offending(features1, features2, thresholds.ratio) # {})
        /\ verdict12.ok => verdict12.why = "Clinically similar"

\* C12: a rejection for a height ratio names the first pair, in position
\* order and counting from 1, that is not skipped and whose ratio exceeds
\* max_concentration_ratio; heights [0.03, 0.30] against [0.03, 0.08] with
\* ratio 2.5 are rejected at pair 2.
C12_FirstOffendingPair ==
    fpc = "done" =>
        /\ verdict12.why = "concentration too different" =>
              LET bad == C11_Offending(features1, features2, thresholds.ratio)
              IN  /\ verdict12.peak \in bad
                  /\ \A j \in bad : verdict12.peak <= j
        /\ (/\ features1.heights = <<30, 300>>
            /\ features2.heights = <<30, 80>>
            /\ thresholds.ratio = 25)
           => (/\ ~verdict12.ok
               /\ verdict12.why = "concentration too different"
               /\ verdict12.peak = 2)

\* the scenario's records: pair 1 is skipped, pair 2 has ratio 3.75
C12_Witness ==
    /\ fpc = "done"
    /\ features1.heights = <<30, 300>>
    /\ features2.heights = <<30, 80>>
    /\ thresholds.ratio = 25
    /\ verdict12.peak = 2
    /\ verdict12.h1 = 300 /\ verdict12.h2 = 80

(***************************************************************************)
(* SpecScore: calculate_peak_similarity on drawn records                   *)
(***************************************************************************)
ProfileLength == 1000                 \* samples in the profiles compared
ScoreHeights == {5, 300, 450, 900}
Offsets == {0, 15, 30, 50, 80}        \* shift of the second record's peaks, samples
IntensityGaps == {0, 1, 3}            \* difference of the mean grey levels

ScoreHeightSeqs == UNION {[1..n -> ScoreHeights] : n \in 0..MaxPeaks}

\* a FeatureRecord with the given heights, its peaks 200 samples apart from
\* sample 100 + offset on, and the given mean intensity
ScoreRecord(h, offset, mean_intensity) ==
    LET pos == [i \in 1..Len(h) |-> 200 * i - 100 + offset]
    IN  [num_peaks            |-> Len(h),
         positions            |-> pos,
         heights              |-> h,
         widths               |-> [i \in 1..Len(h) |-> 4],
         areas                |-> [i \in 1..Len(h) |-> 4 * h[i]],
         signal_length        |-> ProfileLength,
         detection_mode       |-> "strict",
         mean_intensity       |-> mean_intensity,
         normalized_positions |-> [i \in 1..Len(h) |-> (1000 * pos[i]) \div ProfileLength]]

InitScore ==
    /\ spc = "input"
    /\ \E a \in ScoreHeightSeqs : cfeatures1 = ScoreRecord(a, 0, BaseLevel)
    /\ \E b \in ScoreHeightSeqs, o \in Offsets, g \in IntensityGaps :
          cfeatures2 = ScoreRecord(b, o, BaseLevel + g)
    /\ similarity = NoSimilarity
    /\ similarity21 = NoSimilarity
    /\ AnalyzeIdle
    /\ FilterIdle
    /\ RankIdle
    /\ ApiIdle
    /\ SessionIdle
    /\ LabelsIdle

\* the call on (features1, features2) and the call on (features2, features1)
CalculatePeakSimilarity ==
    /\ spc = "input"
    /\ similarity' = calculate_peak_similarity(cfeatures1, cfeatures2)
    /\ similarity21' = calculate_peak_similarity(cfeatures2, cfeatures1)
    /\ spc' = "done"
    /\ UNCHANGED <<cfeatures1, cfeatures2>>
    /\ UNCHANGED <<avars, fvars, rvars, pvars, nvars, lvars>>

NextScore == CalculatePeakSimilarity

SpecScore == InitScore /\ [][NextScore]_vars

\* C13: the total score of calculate_peak_similarity is in [0,1], whatever
\* the peak counts (zero included), heights and mean intensities.
C13_TotalInUnitInterval ==
    spc = "done" => (similarity.total >= 0 /\ similarity.total <= 100000)

\* a record without peaks against one with peaks and another mean
\* intensity: the height and position factors are 0, the total is not
C13_Witness ==
    /\ spc = "done"
    /\ cfeatures1.num_peaks = 0 /\ cfeatures2.num_peaks = 2
    /\ cfeatures1.mean_intensity # cfeatures2.mean_intensity
    /\ similarity.heights = 0 /\ similarity.retention_time = 0
    /\ similarity.total > 0 /\ similarity.total < 100000

\* C14 as stated: a record compared with an identical record has the
\* factors heights, retention_time and num_peaks at 1.0 and the total 1.0.
C14_AsStated ==
    (spc = "done" /\ cfeatures1 = cfeatures2) =>
        /\ similarity.heights = 1000
        /\ similarity.retention_time = 1000
        /\ similarity.num_peaks = 1000
        /\ similarity.total = 100000

\* C14 (amended): the same, for a record with at least one peak.
C14_IdenticalScoresOne ==
    (spc = "done" /\ cfeatures1 = cfeatures2 /\ cfeatures1.num_peaks > 0) =>
        /\ similarity.heights = 1000
        /\ similarity.retention_time = 1000
        /\ similarity.num_peaks = 1000
        /\ similarity.total = 100000

\* the scenario: peaks at 100 and 300 of ProfileLength samples, heights
\* 0.9 and 0.3, against the same record
C14_Witness ==
    /\ spc = "done"
    /\ cfeatures1 = cfeatures2
    /\ cfeatures1.positions = <<100, 300>>
    /\ cfeatures1.heights = <<900, 300>>
    /\ similarity.total = 100000

\* the zero-padded heights and the sentinel-padded normalized positions of
\* the two records compared, pair by pair
PairedHeights ==
    LET max_len == Max2(Len(cfeatures1.heights), Len(cfeatures2.heights))
        h1 == [i \in 1..max_len |-> IF i <= Len(cfeatures1.heights)
                                     THEN cfeatures1.heights[i] ELSE 0]
        h2 == [i \in 1..max_len |-> IF i <= Len(cfeatures2.heights)
                                     THEN cfeatures2.heights[i] ELSE 0]
    IN  [i \in 1..max_len |-> <<h1[i], h2[i]>>]

PairedPositions ==
    LET p1 == cfeatures1.normalized_positions
        p2 == cfeatures2.normalized_positions
        max_len == Max2(Len(p1), Len(p2))
    IN  [i \in 1..max_len |-> <<IF i <= Len(p1) THEN p1[i] ELSE 999000,
                                 IF i <= Len(p2) THEN p2[i] ELSE 999000>>]

\* the bins of the heights factor as stated, boundaries included: with
\* ratio = max / min, 1.0 below 1.5, 0.85 from 1.5, 0.6 from 2.0, 0.3 from 3.0
\* (a height against a padded zero has no finite ratio and takes the last bin)
StatedHeightBin(h1, h2) ==
    LET hi == IF h1 >= h2 THEN h1 ELSE h2
        lo == IF h1 >= h2 THEN h2 ELSE h1
    IN  IF h1 < 10 /\ h2 < 10 THEN 1000
        ELSE IF 2 * hi < 3 * lo THEN 1000
        ELSE IF hi < 2 * lo THEN 850
        ELSE IF hi < 3 * lo THEN 600
        ELSE 300

\* the bins of the retention_time factor as stated, d = 10.0 x |p1 - p2|
StatedPositionBin(p1, p2) ==
    LET d == 10 * (IF p1 >= p2 THEN p1 - p2 ELSE p2 - p1)
    IN  IF p1 = 999000 \/ p2 = 999000 THEN 500
        ELSE IF d < 100 THEN 1000
        ELSE IF d < 200 THEN 950
        ELSE IF d < 400 THEN 850
        ELSE IF d < 600 THEN 600
        ELSE 300

\* C23 as stated: the heights factor is the mean over the aligned pairs of
\* the zero-padded heights of 1.0 when both are below 0.01 and otherwise of
\* the bin of ratio = max / min, a ratio of exactly 1.5 (2.0, 3.0) falling
\* in the bin 0.85 (0.6, 0.3).
C23_AsStated ==
    (spc = "done" /\ Len(PairedHeights) > 0) =>
        similarity.heights =
            Mean([i \in 1..Len(PairedHeights) |->
                     StatedHeightBin(PairedHeights[i][1], PairedHeights[i][2])])

\* C24 as stated: the retention_time factor is the mean over the aligned
\* slots of the sentinel-padded normalized positions of 0.5 for a slot with
\* a sentinel and otherwise of the bin of d = 10.0 x |p1 - p2|.
C24_AsStated ==
    (spc = "done" /\ Len(PairedPositions) > 0) =>
        similarity.retention_time =
            Mean([i \in 1..Len(PairedPositions) |->
                     StatedPositionBin(PairedPositions[i][1], PairedPositions[i][2])])

\* C24 (amended): the same, when both records have at least one peak.
C24_RetentionTimeFactor ==
    (spc = "done" /\ cfeatures1.num_peaks > 0 /\ cfeatures2.num_peaks > 0) =>
        similarity.retention_time =
            Mean([i \in 1..Len(PairedPositions) |->
                     StatedPositionBin(PairedPositions[i][1], PairedPositions[i][2])])

\* one peak against two, the first pair 0.015 apart (d = 0.15, bin 0.95) and
\* the second slot padded with the sentinel (0.5): the factor is 0.725
C24_Witness ==
    /\ spc = "done"
    /\ cfeatures1.num_peaks = 1 /\ cfeatures2.num_peaks = 2
    /\ cfeatures2.normalized_positions[1] - cfeatures1.normalized_positions[1] = 15
    /\ similarity.retention_time = 725

\* C26: calculate_peak_similarity gives the same total and the same four
\* factors for (A, B) and for (B, A), also when the peak counts differ and
\* the shorter record is padded.
C26_ScoreSymmetric ==
    spc = "done" =>
        /\ similarity.total = similarity21.total
        /\ similarity.num_peaks = similarity21.num_peaks
        /\ similarity.heights = similarity21.heights
        /\ similarity.retention_time = similarity21.retention_time
        /\ similarity.intensity = similarity21.intensity

\* two different records with different peak counts, heights, positions and
\* mean intensities, compared in both orders
C26_Witness ==
    /\ spc = "done"
    /\ cfeatures1.num_peaks = 2 /\ cfeatures2.num_peaks = 1
    /\ cfeatures1.heights[1] > 2 * cfeatures2.heights[1]
    /\ cfeatures1.normalized_positions[1] # cfeatures2.normalized_positions[1]
    /\ cfeatures1.mean_intensity # cfeatures2.mean_intensity
    /\ similarity21.total = similarity.total
    /\ similarity21.heights < 1000 /\ similarity21.retention_time < 1000

\* C29: when either record has no peaks the heights and the retention_time
\* factors are 0.0 and the total is at most 0.30 (0.15 for the peak count
\* and 0.15 for the intensity); a record without peaks compared with itself
\* scores exactly 0.30.
C29_ZeroPeaksCapped ==
    spc = "done" =>
        /\ (cfeatures1.num_peaks = 0 \/ cfeatures2.num_peaks = 0) =>
              /\ similarity.heights = 0
              /\ similarity.retention_time = 0
              /\ similarity.total <= 30000
              /\ similarity.total = 15 * similarity.num_peaks + 15 * similarity.intensity
        /\ (cfeatures1.num_peaks = 0 /\ cfeatures1 = cfeatures2) =>
              similarity.total = 30000

\* a record without peaks compared with itself: peak count and intensity
\* agree, the other two factors are 0.0
C29_Witness ==
    /\ spc = "done"
    /\ cfeatures1.num_peaks = 0
    /\ cfeatures1 = cfeatures2
    /\ similarity.num_peaks = 1000 /\ similarity.intensity = 1000
    /\ similarity.heights = 0 /\ similarity.retention_time = 0
    /\ similarity.total = 30000

(***************************************************************************)
(* search_similar_with_peaks: the hybrid ranker                            *)
(*                                                                         *)
(* Similarities are in 1e-5 (1.0 is 100000), weights in hundredths, so a   *)
(* combined score is in 1e-7 (1.0 is 10000000).                            *)
(***************************************************************************)
MaxTopK == 3      \* largest top_k requested
NumCands == 9     \* chromatographs in the vector index

\* ---- the collection behind the vector index ----
ImageA == <<"major", "minor", "small", "none">>
ImageB == <<"minor", "major", "none", "none">>
ImageC == <<"major", "small", "spike", "none">>
ImageD == <<"major", "minor", "none", "hump">>
ImageE == <<"none", "none", "none", "none">>
ImageF == <<"major", "major", "spike", "spike">>

\* the image stored for candidate i, padded to MaxBlobs slots
Stored(img) == [j \in 1..MaxBlobs |-> IF j <= Len(img) THEN img[j] ELSE "none"]
CandImage(i) ==
    LET cycle == <<ImageA, ImageA, ImageC, ImageB, ImageD, ImageC, ImageE>>
    IN  Stored(cycle[((i - 1) % Len(cycle)) + 1])

\* what Image.open / reading the pixels does with candidate i's file:
\* "ok", "missing" (Image.open raises) or "corrupt" (Image.open succeeds,
\* reading the pixel data raises)
CandFile(collection, i) ==
    IF collection = "clean" THEN "ok"
    ELSE IF i % 7 = 3 THEN "missing"
    ELSE IF i % 7 = 5 THEN "corrupt"
    ELSE "ok"

\* similarity = 1.0 / (1.0 + distance) of the i-th nearest neighbour:
\* non-increasing in i, neighbours 2k-1 and 2k at the same distance
ClipOf(i) == 96000 - 3000 * ((i - 1) \div 2)

\* clip_weight: float = 0.6, peak_weight: float = 0.4
DefaultClipWeight == 60
DefaultPeakWeight == 40

\* the weights a caller passes; <<>> when it passes none
Weights == {<<>>, <<40, 60>>, <<150, -50>>}
\* what the caller hands in: an image, the bytes of a PDF, or neither; the
\* image may be unreadable (its pixel data cannot be decoded) and the PDF
\* malformed (fitz.open raises); query is the chromatograph an intact
\* input shows
NoImage == Stored(<<>>)
QueryInputs ==
    {[input |-> "image", intact |-> TRUE, query |-> Stored(ImageA)],
     [input |-> "pdf", intact |-> TRUE, query |-> Stored(ImageD)],
     [input |-> "image", intact |-> TRUE, query |-> Stored(ImageF)],
     [input |-> "image", intact |-> FALSE, query |-> NoImage],
     [input |-> "pdf", intact |-> FALSE, query |-> NoImage],
     [input |-> "none", intact |-> FALSE, query |-> NoImage]}

\* the exception search_similar raises on the input, "none" when it goes
\* through: lines 309-310 and 142-172 (extract_from_pdf), 313-321 and
\* 174-193 (embed_image), 322-323 (ValueError)
InputErrorIgnored(r) == "none"
InputError(r) ==
    IF r.input = "none" THEN "ValueError"
    ELSE IF ~r.intact THEN (IF r.input = "pdf" THEN "pdf_error" ELSE "image_error")
    ELSE "none"
Collections == {"clean", "mixed"}

NoDetails == [total |-> None, num_peaks |-> None, heights |-> None,
              retention_time |-> None, intensity |-> None]

\* self.search_similar(..., top_k=top_k * 3): ids of the nearest
\* candidates, nearest first
search_similar(n_results) == [i \in 1..Min2(n_results, NumCands) |-> i]

\* hybrid_score = (clip_weight * clip_sim) + (peak_weight * peak_sim)
HybridUnweighted(clip_weight, clip_sim, peak_weight, peak_sim) ==
    100 * clip_sim + 100 * peak_sim
HybridScore(clip_weight, clip_sim, peak_weight, peak_sim) ==
    (clip_weight * clip_sim) + (peak_weight * peak_sim)

\* lines 462-471: the entry of a scored candidate
ScoredEntry(id, clip_sim, peak, hybrid_score, n) ==
    [id |-> id, clip_similarity |-> clip_sim, peak_similarity |-> peak.total,
     hybrid_similarity |-> hybrid_score, peak_details |-> peak,
     num_peaks |-> n, score |-> hybrid_score]

\* lines 473-483: the entry of a candidate whose analysis raised
FallbackDropped(id, clip_sim) == <<>>
FallbackEntry(id, clip_sim) ==
    <<[id |-> id, clip_similarity |-> clip_sim, peak_similarity |-> None,
       hybrid_similarity |-> 100 * clip_sim, peak_details |-> NoDetails,
       num_peaks |-> None, score |-> 100 * clip_sim]>>

\* max_concentration_ratio=2.5 and max_peak_count_diff=3, the defaults of
\* is_clinically_similar
DefaultRatio == 25
DefaultCountDiff == 3

\* max_concentration_ratio=10.0 and max_peak_count_diff=5 of the call of
\* lines 440-445
PermissiveRatio == 100
PermissiveCountDiff == 5

SkipNever(is_similar) == FALSE

\* "if not is_similar: ... continue" (lines 447-450)
Skip(is_similar) == ~is_similar

\* hybrid_results.sort(key=lambda x: x[1], reverse=True): descending and
\* stable (entries with equal scores keep their order)
RECURSIVE InsertAscending(_, _)
InsertAscending(e, sorted) ==
    IF sorted = <<>> THEN <<e>>
    ELSE IF e.score < Head(sorted).score THEN <<e>> \o sorted
    ELSE <<Head(sorted)>> \o InsertAscending(e, Tail(sorted))

RECURSIVE InsertDescending(_, _)
InsertDescending(e, sorted) ==
    IF sorted = <<>> THEN <<e>>
    ELSE IF e.score > Head(sorted).score THEN <<e>> \o sorted
    ELSE <<Head(sorted)>> \o InsertDescending(e, Tail(sorted))

RECURSIVE SortAscending(_)
SortAscending(entries) ==
    IF entries = <<>> THEN <<>>
    ELSE InsertAscending(entries[Len(entries)],
                         SortAscending(SubSeq(entries, 1, Len(entries) - 1)))

RECURSIVE SortDescending(_)
SortDescending(entries) ==
    IF entries = <<>> THEN <<>>
    ELSE InsertDescending(entries[Len(entries)],
                          SortDescending(SubSeq(entries, 1, Len(entries) - 1)))

\* seq[:n]
Prefix(seq, n) == SubSeq(seq, 1, Min2(n, Len(seq)))

\* hybrid_results[:top_k * 2]
ScreenSliceAll(top_k) == top_k * 3
ScreenSlice(top_k) == top_k * 2

\* filtered_results[:top_k] / hybrid_results[:top_k]
TopResultsAll(results, top_k) == results
TopResults(results, top_k) == Prefix(results, top_k)

\* what a screening call can come to, by the file behind the candidate:
\*   "true"     the reply contains YES                    (return True)
\*   "false"    the reply does not contain YES            (return False)
\*   "failopen" timeout, HTTP error or undecodable reply  (except: return True)
\*   "raised"   encoding the candidate image raises, outside the try block
Outcomes(file) == IF file = "corrupt" THEN {"raised"} ELSE {"true", "false", "failopen"}

Completed(t) == t.state \in {"true", "false", "failopen", "raised"}

\* lines 519-530: is the entry appended to filtered_results?
KeptStrict(state) == state = "true"
Kept(state) ==
    IF state = "raised" THEN TRUE      \* isinstance(is_similar, Exception)
    ELSE state \in {"true", "failopen"}  \* elif is_similar

\* a screening stage that tops the kept entries up with the entries ranked
\* below the slice
ProcessResultsBackfill(ts) ==
    LET sel  == SelectSeq(ts, LAMBDA t : Kept(t.state))
        kept == [i \in 1..Len(sel) |-> sel[i].result]
    IN  kept \o SubSeq(hybrid_results, 2 * req.top_k + 1, Len(hybrid_results))

\* lines 516-530: the entries kept, in the order of the tasks
RECURSIVE ProcessResults(_)
ProcessResults(ts) ==
    IF ts = <<>> THEN <<>>
    ELSE (IF Kept(Head(ts).state) THEN <<Head(ts).result>> ELSE <<>>)
         \o ProcessResults(Tail(ts))

InitRank ==
    /\ rpc = "search"
    /\ \E k \in 1..MaxTopK, w \in Weights, l \in BOOLEAN,
          q \in QueryInputs, c \in Collections :
          req = [top_k |-> k, weights_given |-> w # <<>>,
                 clip_weight |-> IF w = <<>> THEN DefaultClipWeight ELSE w[1],
                 peak_weight |-> IF w = <<>> THEN DefaultPeakWeight ELSE w[2],
                 llm_screen |-> l, input |-> q.input, intact |-> q.intact,
                 query |-> q.query, collection |-> c]
    /\ initial_results = <<>>
    /\ query_features = NoFeatures
    /\ idx = 0
    /\ hybrid_results = <<>>
    /\ tasks = <<>>
    /\ filtered_results = <<>>
    /\ final_results = <<>>
    /\ started = [i \in 1..NumCands |-> 0]
    /\ verdicts = [i \in 1..NumCands |-> "none"]
    /\ scored = {}
    /\ AnalyzeIdle
    /\ FilterIdle
    /\ ScoreIdle
    /\ ApiIdle
    /\ SessionIdle
    /\ LabelsIdle

\* lines 396-402; an exception of search_similar leaves the function
Search ==
    /\ rpc = "search"
    /\ IF InputError(req) # "none"
       THEN /\ rpc' = "raised"
            /\ UNCHANGED initial_results
       ELSE /\ initial_results' = search_similar(req.top_k * 3)
            /\ rpc' = "analyze_query"
    /\ UNCHANGED <<req, query_features, idx, hybrid_results, tasks,
                   filtered_results, final_results, started>>
    /\ UNCHANGED <<verdicts, scored>>
    /\ UNCHANGED <<avars, fvars, svars, pvars, nvars, lvars>>

\* lines 404-421
AnalyzeQuery ==
    /\ rpc = "analyze_query"
    /\ query_features' = analyze_image(req.query)
    /\ idx' = 1
    /\ rpc' = "rerank"
    /\ UNCHANGED <<req, initial_results, hybrid_results, tasks,
                   filtered_results, final_results, started>>
    /\ UNCHANGED <<verdicts, scored>>
    /\ UNCHANGED <<avars, fvars, svars, pvars, nvars, lvars>>

\* lines 423-451 and 473-483, one candidate: its image is loaded and
\* analyzed and the hard filter is asked. A rejected candidate is passed over
\* (continue), an accepted one goes on to be scored, and a candidate whose
\* image cannot be loaded is kept on its CLIP similarity alone
Rerank ==
    /\ rpc = "rerank"
    /\ idx <= Len(initial_results)
    /\ LET id == initial_results[idx]
       IN  IF CandFile(req.collection, id) = "ok"
           THEN LET result_features == analyze_image(CandImage(id))
                    v == is_clinically_similar(query_features, result_features,
                                               PermissiveRatio, PermissiveCountDiff)
                IN  /\ verdicts' = [verdicts EXCEPT
                                        ![id] = IF v.ok THEN "accepted" ELSE "rejected"]
                    /\ IF Skip(v.ok)
                       THEN /\ idx' = idx + 1
                            /\ UNCHANGED rpc
                       ELSE /\ rpc' = "score"
                            /\ UNCHANGED idx
                    /\ UNCHANGED hybrid_results
           ELSE /\ hybrid_results' = hybrid_results \o FallbackEntry(id, ClipOf(id))
                /\ verdicts' = [verdicts EXCEPT ![id] = "failed"]
                /\ idx' = idx + 1
                /\ UNCHANGED rpc
    /\ UNCHANGED <<req, initial_results, query_features, tasks,
                   filtered_results, final_results, started, scored>>
    /\ UNCHANGED <<avars, fvars, svars, pvars, nvars, lvars>>

\* lines 453-471: the candidate the filter let through is scored and added
Score ==
    /\ rpc = "score"
    /\ LET id == initial_results[idx]
           clip_sim == ClipOf(id)
           result_features == analyze_image(CandImage(id))
           peak == calculate_peak_similarity(query_features, result_features)
       IN  /\ scored' = scored \cup {id}
           /\ hybrid_results' = hybrid_results \o
                  <<ScoredEntry(id, clip_sim, peak,
                                HybridScore(req.clip_weight, clip_sim,
                                            req.peak_weight, peak.total),
                                result_features.num_peaks)>>
    /\ idx' = idx + 1
    /\ rpc' = "rerank"
    /\ UNCHANGED <<req, initial_results, query_features, tasks,
                   filtered_results, final_results, started, verdicts>>
    /\ UNCHANGED <<avars, fvars, svars, pvars, nvars, lvars>>

\* lines 485-491 and 543-545
Sort ==
    /\ rpc = "rerank"
    /\ idx > Len(initial_results)
    /\ hybrid_results' = SortDescending(hybrid_results)
    /\ idx' = 1
    /\ rpc' = IF req.llm_screen THEN "screen" ELSE "no_screen"
    /\ UNCHANGED <<req, initial_results, query_features, tasks,
                   filtered_results, final_results, started>>
    /\ UNCHANGED <<verdicts, scored>>
    /\ UNCHANGED <<avars, fvars, svars, pvars, nvars, lvars>>

\* lines 496-511, one entry of the slice: the coroutine is created, not
\* started; an entry whose image cannot be opened is passed over
CreateTask ==
    /\ rpc = "screen"
    /\ idx <= Len(Prefix(hybrid_results, ScreenSlice(req.top_k)))
    /\ LET e == hybrid_results[idx]
       IN  tasks' = IF CandFile(req.collection, e.id) = "missing"
                    THEN tasks
                    ELSE Append(tasks, [result |-> e, state |-> "created"])
    /\ idx' = idx + 1
    /\ UNCHANGED <<rpc, req, initial_results, query_features, hybrid_results,
                   filtered_results, final_results, started>>
    /\ UNCHANGED <<verdicts, scored>>
    /\ UNCHANGED <<avars, fvars, svars, pvars, nvars, lvars>>

\* line 514: asyncio.gather schedules every coroutine ("running": scheduled
\* or in flight), then awaits the batch
Gather ==
    /\ rpc = "screen"
    /\ idx > Len(Prefix(hybrid_results, ScreenSlice(req.top_k)))
    /\ tasks' = [t \in 1..Len(tasks) |-> [tasks[t] EXCEPT !.state = "running"]]
    /\ started' = [i \in 1..NumCands |->
                      started[i] + Cardinality({t \in 1..Len(tasks) : tasks[t].result.id = i})]
    /\ rpc' = "await"
    /\ UNCHANGED <<req, initial_results, query_features, idx, hybrid_results,
                   filtered_results, final_results>>
    /\ UNCHANGED <<verdicts, scored>>
    /\ UNCHANGED <<avars, fvars, svars, pvars, nvars, lvars>>

\* lines 205-287: one call of llm_compare_chromatographs comes to its end
Complete ==
    /\ rpc = "await"
    /\ \E t \in 1..Len(tasks) :
          /\ tasks[t].state = "running"
          /\ \E o \in Outcomes(CandFile(req.collection, tasks[t].result.id)) :
                tasks' = [tasks EXCEPT ![t].state = o]
    /\ UNCHANGED <<rpc, req, initial_results, query_features, idx, hybrid_results,
                   filtered_results, final_results, started>>
    /\ UNCHANGED <<verdicts, scored>>
    /\ UNCHANGED <<avars, fvars, svars, pvars, nvars, lvars>>

\* lines 516-541 and 552: gather has every result
Process ==
    /\ rpc = "await"
    /\ \A t \in 1..Len(tasks) : Completed(tasks[t])
    /\ filtered_results' = ProcessResults(tasks)
    /\ final_results' = TopResults(filtered_results', req.top_k)
    /\ rpc' = "done"
    /\ UNCHANGED <<req, initial_results, query_features, idx, hybrid_results,
                   tasks, started>>
    /\ UNCHANGED <<verdicts, scored>>
    /\ UNCHANGED <<avars, fvars, svars, pvars, nvars, lvars>>

\* lines 543-552
NoScreen ==
    /\ rpc = "no_screen"
    /\ final_results' = TopResults(hybrid_results, req.top_k)
    /\ rpc' = "done"
    /\ UNCHANGED <<req, initial_results, query_features, idx, hybrid_results,
                   tasks, filtered_results, started>>
    /\ UNCHANGED <<verdicts, scored>>
    /\ UNCHANGED <<avars, fvars, svars, pvars, nvars, lvars>>

Next ==
    \/ Search
    \/ AnalyzeQuery
    \/ Rerank
    \/ Score
    \/ Sort
    \/ CreateTask
    \/ Gather
    \/ Complete
    \/ Process
    \/ NoScreen

Spec == InitRank /\ [][Next]_vars

\* ---- helpers of the ranking properties ----
One == 100 * 100000      \* the combined score 1.0
InUnit(sim) == sim >= 0 /\ sim <= 100000
Finished == rpc = "done"
\* the state the sort leaves: the ranked list is complete and still unused
Ranked == rpc = "no_screen" \/ (rpc = "screen" /\ idx = 1)
Ids(entries) == {entries[i].id : i \in 1..Len(entries)}
PosIn(entries, id) == CHOOSE k \in 1..Len(entries) : entries[k].id = id
Slice == Prefix(hybrid_results, 2 * req.top_k)

\* C4 as stated: a scored candidate's combined score is in [0,1] whenever its
\* embedding and clinical similarities are in [0,1] and the weights sum to 1.
C4_AsStated ==
    \A i \in 1..Len(hybrid_results) :
        LET e == hybrid_results[i]
        IN  (/\ e.peak_similarity # None
             /\ InUnit(e.clip_similarity) /\ InUnit(e.peak_similarity)
             /\ req.clip_weight + req.peak_weight = 100)
            => (e.score >= 0 /\ e.score <= One)

\* C4 (amended): the same, for weights that are each in [0,1] as well.
C4_ScoreInUnitInterval ==
    \A i \in 1..Len(hybrid_results) :
        LET e == hybrid_results[i]
        IN  (/\ e.peak_similarity # None
             /\ InUnit(e.clip_similarity) /\ InUnit(e.peak_similarity)
             /\ req.clip_weight + req.peak_weight = 100
             /\ req.clip_weight >= 0 /\ req.peak_weight >= 0)
            => (e.score >= 0 /\ e.score <= One)

\* a candidate scored with weights 0.6 / 0.4 from two different similarities
C4_Witness ==
    /\ req.clip_weight = 60 /\ req.peak_weight = 40
    /\ \E i \in 1..Len(hybrid_results) :
          /\ hybrid_results[i].peak_similarity # None
          /\ hybrid_results[i].peak_similarity < hybrid_results[i].clip_similarity
          /\ hybrid_results[i].score > 0

\* C15 as stated: when the caller passes no weights, a scored candidate's
\* combined score is 0.40 x embedding similarity + 0.60 x clinical similarity.
C15_AsStated ==
    ~req.weights_given =>
        \A i \in 1..Len(hybrid_results) :
            LET e == hybrid_results[i]
            IN  e.peak_similarity # None
                    => e.score = 40 * e.clip_similarity + 60 * e.peak_similarity

C6_OrderKept ==
    Finished =>
        /\ \A i \in 1..Len(final_results) :
              /\ final_results[i].id \in Ids(hybrid_results)
              /\ final_results[i] = hybrid_results[PosIn(hybrid_results, final_results[i].id)]
        /\ \A i \in 1..(Len(final_results) - 1) :
              /\ final_results[i].score >= final_results[i + 1].score
              /\ PosIn(hybrid_results, final_results[i].id)
                   < PosIn(hybrid_results, final_results[i + 1].id)

\* screening removed the entry ranked third; the two above it have equal
\* scores and are returned in their ranked order, the fourth follows them
C6_Witness ==
    /\ Finished /\ req.llm_screen
    /\ Len(final_results) >= 3 /\ Len(hybrid_results) >= 4
    /\ final_results[1] = hybrid_results[1]
    /\ final_results[2] = hybrid_results[2]
    /\ final_results[3] = hybrid_results[4]
    /\ final_results[1].score = final_results[2].score
    /\ final_results[2].score > final_results[3].score

\* C7: when the re-ranking loop is over and the list sorted, every candidate whose image could
\* not be loaded or analysed has an entry with score = its embedding
\* similarity and peak similarity None, and every other candidate was
\* processed: it has a scored entry unless the hard filter rejected it.
C7_FallbackOnFailure ==
    Ranked =>
        \A k \in 1..Len(initial_results) :
            LET id == initial_results[k]
            IN  IF CandFile(req.collection, id) # "ok"
                THEN /\ id \in Ids(hybrid_results)
                     /\ LET e == hybrid_results[PosIn(hybrid_results, id)]
                        IN  /\ e.score = 100 * ClipOf(id)
                            /\ e.clip_similarity = ClipOf(id)
                            /\ e.peak_similarity = None
                ELSE LET f == analyze_image(CandImage(id))
                     IN  (id \in Ids(hybrid_results))
                            = is_clinically_similar(query_features, f, 100, 5).ok

\* a candidate whose file is missing is returned with its embedding
\* similarity as score, ranked below a scored candidate and above another
C7_Witness ==
    /\ Finished /\ ~req.llm_screen
    /\ \E i \in 2..Len(final_results) :
          /\ final_results[i].peak_similarity = None
          /\ CandFile(req.collection, final_results[i].id) = "missing"
          /\ final_results[i - 1].peak_similarity # None
          /\ \E j \in 1..Len(hybrid_results) :
                /\ j > PosIn(hybrid_results, final_results[i].id)
                /\ hybrid_results[j].peak_similarity # None

\* C8 as stated: an entry of the top 2 x top_k slice is missing from
\* filtered_results only if its screening call was answered without YES.
C8_AsStated ==
    (Finished /\ req.llm_screen) =>
        \A i \in 1..Len(Slice) :
            Slice[i].id \notin Ids(filtered_results)
                => \E t \in 1..Len(tasks) :
                      tasks[t].result.id = Slice[i].id /\ tasks[t].state = "false"

\* C9: the returned list has at most top_k entries, exactly min(top_k,
\* entries kept); and when six calls were made, one failed and five were
\* approved, top_k entries are returned and the failed call's candidate is
\* among the entries kept.
C9_Length ==
    Finished =>
        /\ Len(final_results) <= req.top_k
        /\ Len(final_results) =
              Min2(req.top_k, IF req.llm_screen THEN Len(filtered_results)
                                ELSE Len(hybrid_results))
        /\ (/\ req.llm_screen
            /\ Len(tasks) = 6
            /\ Cardinality({t \in 1..6 : tasks[t].state = "failopen"}) = 1
            /\ Cardinality({t \in 1..6 : tasks[t].state = "true"}) = 5)
           => /\ Len(final_results) = req.top_k
              /\ \A t \in 1..6 : tasks[t].result.id \in Ids(filtered_results)

\* six candidates screened for top_k = 3, the call of the best-ranked one
\* timed out, the others were approved: three are returned, that one first
C9_Witness ==
    /\ Finished /\ req.llm_screen /\ req.top_k = 3
    /\ Len(tasks) = 6
    /\ tasks[1].state = "failopen"
    /\ \A t \in 2..6 : tasks[t].state = "true"
    /\ Len(final_results) = 3
    /\ final_results[1] = tasks[1].result

\* C10: no call completes while a coroutine is still unstarted, at most
\* 2 x top_k calls are in flight, no candidate has more than one call, and
\* the results are used only when the whole batch has completed.
C10_BatchedCalls ==
    /\ (\E t \in 1..Len(tasks) : Completed(tasks[t]))
          => \A u \in 1..Len(tasks) : tasks[u].state # "created"
    /\ Cardinality({t \in 1..Len(tasks) : tasks[t].state = "running"}) <= 2 * req.top_k
    /\ Len(tasks) <= 2 * req.top_k
    /\ \A i \in 1..Len(started) : started[i] <= 1
    /\ \A t, u \in 1..Len(tasks) : tasks[t].result.id = tasks[u].result.id => t = u
    /\ (Finished /\ req.llm_screen) => \A t \in 1..Len(tasks) : Completed(tasks[t])
    /\ ~Finished => (filtered_results = <<>> /\ final_results = <<>>)

\* 2 x top_k = 6 calls in flight at once
C10_Witness ==
    /\ rpc = "await" /\ req.top_k = 3
    /\ Cardinality({t \in 1..Len(tasks) : tasks[t].state = "running"}) = 6

\* C17: the call raises exactly when the query input fails (neither image
\* nor PDF, an unreadable image, a malformed PDF), and then before any
\* candidate is looked at; a call with an intact query returns a list
\* whatever happens to its candidates' files and to its screening calls.
C17_OnlyInputFailureAborts ==
    /\ rpc = "raised" =>
          /\ (req.input = "none" \/ ~req.intact)
          /\ initial_results = <<>> /\ hybrid_results = <<>> /\ final_results = <<>>
    /\ (rpc # "search" /\ (req.input = "none" \/ ~req.intact)) => rpc = "raised"

\* a request that returned although a candidate's file was missing, a
\* screening call failed, and a candidate that could not be analysed is
\* among the results
C17_Witness ==
    /\ Finished /\ req.llm_screen /\ req.intact
    /\ \E t \in 1..Len(tasks) : tasks[t].state = "failopen"
    /\ \E i \in 1..Len(hybrid_results) :
          /\ hybrid_results[i].peak_similarity = None
          /\ CandFile(req.collection, hybrid_results[i].id) = "missing"
    /\ \E i \in 1..Len(final_results) : final_results[i].peak_similarity = None

\* the verdict of the hard filter on (query, candidate id) under the given
\* thresholds, computed afresh
AcceptedAt(id, ratio, count_diff) ==
    is_clinically_similar(query_features, analyze_image(CandImage(id)),
                          ratio, count_diff).ok

\* the candidates the loop has recorded as rejected by the hard filter
RejectedSoFar == {id \in 1..NumCands : verdicts[id] = "rejected"}

\* C21: calculate_peak_similarity is invoked for a (query, candidate) pair
\* only in a step after is_clinically_similar has accepted that pair, and a
\* candidate the hard filter rejected is never scored and is in none of the
\* lists of results.
C21_ScoredOnlyAfterAccepted ==
    /\ [][\A id \in scored' \ scored : verdicts[id] = "accepted"]_vars
    /\ [](rpc = "score" =>
             /\ verdicts[initial_results[idx]] = "accepted"
             /\ AcceptedAt(initial_results[idx], 100, 5))
    /\ [](Ranked =>
             \A k \in 1..Len(initial_results) :
                LET id == initial_results[k]
                IN  (CandFile(req.collection, id) = "ok" /\ ~AcceptedAt(id, 100, 5))
                       => id \in RejectedSoFar)
    /\ [](RejectedSoFar \cap (scored \cup Ids(hybrid_results)
                                  \cup Ids(filtered_results)
                                  \cup Ids(final_results)) = {})

\* a finished request in which the filter rejected a candidate and accepted
\* and scored another, which is returned
C21_Witness ==
    /\ Finished
    /\ RejectedSoFar # {}
    /\ \E i \in 1..Len(final_results) :
          final_results[i].id \in scored /\ final_results[i].peak_similarity # None

\* C22: a candidate whose features were extracted is discarded exactly when
\* is_clinically_similar rejects it under max_peak_count_diff = 5 and
\* max_concentration_ratio = 10.0; a candidate that only the defaults 3 and
\* 2.5 would reject is kept.
C22_PermissiveThresholds ==
    Ranked =>
        \A k \in 1..Len(initial_results) :
            LET id == initial_results[k]
            IN  CandFile(req.collection, id) = "ok" =>
                   /\ (id \notin Ids(hybrid_results)) = ~AcceptedAt(id, 100, 5)
                   /\ (AcceptedAt(id, 100, 5) /\ ~AcceptedAt(id, DefaultRatio, DefaultCountDiff))
                         => id \in Ids(hybrid_results)

\* a ranked list that holds a candidate the default ratio 2.5 would have
\* rejected, while another candidate was discarded under the permissive
\* thresholds
C22_Witness ==
    /\ Ranked
    /\ \E i \in 1..Len(hybrid_results) :
          /\ hybrid_results[i].peak_similarity # None
          /\ ~AcceptedAt(hybrid_results[i].id, DefaultRatio, PermissiveCountDiff)
    /\ \E k \in 1..Len(initial_results) :
          /\ CandFile(req.collection, initial_results[k]) = "ok"
          /\ initial_results[k] \notin Ids(hybrid_results)

\* C30: with screening enabled every returned candidate is among the first
\* 2 x top_k of the ranked list; the entries ranked below are never used to
\* fill the result up to top_k.
C30_NoBackfill ==
    (Finished /\ req.llm_screen) =>
        \A i \in 1..Len(final_results) :
            /\ final_results[i].id \in Ids(hybrid_results)
            /\ PosIn(hybrid_results, final_results[i].id) <= 2 * req.top_k

\* fewer than top_k screened candidates survive while a scored candidate
\* ranked below 2 x top_k is available: the result is shorter than top_k
C30_Witness ==
    /\ Finished /\ req.llm_screen
    /\ Len(final_results) < req.top_k
    /\ \E j \in (2 * req.top_k + 1)..Len(hybrid_results) :
          hybrid_results[j].peak_similarity # None

(***************************************************************************)
(* SpecApi: the handler of POST /api/visual-search (api.py, visual_search) *)
(***************************************************************************)
MaxPages == 3     \* pages of the largest PDF uploaded

\* the uploaded file: a PDF of some pages, an image, or bytes that are neither
UploadFiles ==
    {[file |-> "pdf", pages |-> n] : n \in 1..MaxPages}
    \cup {[file |-> "image", pages |-> 0], [file |-> "broken_image", pages |-> 0]}

\* the parameters of search_similar_with_peaks (visual_search.py:372-381)
RankerParameters ==
    {"image", "pdf_bytes", "top_k", "clip_weight", "peak_weight",
     "category_filter", "llm_screen"}

\* the keywords of the two calls, lines 454-461 and 464-471
CallKeywords(is_pdf) ==
    {IF is_pdf THEN "pdf_bytes" ELSE "image",
     "top_k", "clip_weight", "peak_weight", "llm_screen", "page_number"}

\* Python binds the keywords to the parameters before the body runs:
\* a keyword that names no parameter raises TypeError
Unexpected(keywords) == keywords \ RankerParameters

\* extract_from_pdf (visual_search.py:142-172): page = doc[0]
PageRendered(pdf_pages, page_number) == 0

InitApi ==
    /\ hpc = "start"
    /\ visual_engine \in {"engine", "None"}
    /\ \E u \in UploadFiles, k \in 1..MaxTopK, l \in BOOLEAN, n \in 0..(MaxPages - 1) :
          upload = [file |-> u.file, pages |-> u.pages, top_k |-> k,
                    llm_screen |-> l, page_number |-> n]
    /\ exc = NoException
    /\ rendered_page = None
    /\ response = NoResponse
    /\ AnalyzeIdle
    /\ FilterIdle
    /\ RankIdle
    /\ ScoreIdle
    /\ SessionIdle
    /\ LabelsIdle

\* lines 439-441: inside the try block
CheckEngine ==
    /\ hpc = "start"
    /\ IF visual_engine = "None"
       THEN /\ exc' = [type |-> "HTTPException", status_code |-> 503,
                       detail |-> "Visual search not available"]
            /\ hpc' = "except"
       ELSE /\ hpc' = "read"
            /\ UNCHANGED exc
    /\ UNCHANGED <<visual_engine, upload, rendered_page, response>>
    /\ UNCHANGED <<avars, fvars, rvars, svars, nvars, lvars>>

\* lines 443-447: contents = await file.read(); is_pdf = ...
ReadUpload ==
    /\ hpc = "read"
    /\ hpc' = "call"
    /\ UNCHANGED <<visual_engine, upload, exc, rendered_page, response>>
    /\ UNCHANGED <<avars, fvars, rvars, svars, nvars, lvars>>

\* lines 453-503: the call of the ranker and the formatting of its results
CallRanker ==
    /\ hpc = "call"
    /\ LET is_pdf == upload.file = "pdf"
       IN  IF upload.file = "broken_image"
           THEN \* Image.open(io.BytesIO(contents)) raises
                /\ exc' = [type |-> "UnidentifiedImageError", status_code |-> 0,
                           detail |-> "cannot identify image file"]
                /\ hpc' = "except"
                /\ UNCHANGED <<rendered_page, response>>
           ELSE IF Unexpected(CallKeywords(is_pdf)) # {}
           THEN /\ exc' = [type |-> "TypeError", status_code |-> 0,
                           detail |-> "unexpected keyword argument"]
                /\ hpc' = "except"
                /\ UNCHANGED <<rendered_page, response>>
           ELSE /\ rendered_page' = IF is_pdf
                                    THEN PageRendered(upload.pages, upload.page_number)
                                    ELSE None
                /\ response' = [status_code |-> 200, detail |-> "results"]
                /\ hpc' = "done"
                /\ UNCHANGED exc
    /\ UNCHANGED <<visual_engine, upload>>
    /\ UNCHANGED <<avars, fvars, rvars, svars, nvars, lvars>>

\* str(e) of line 506: the message of a built-in exception; for an
\* HTTPException what the installed framework's __str__ gives, the status
\* code and the detail, or nothing where it defines none
StrOf(e) ==
    IF e.type = "HTTPException"
    THEN {"503: " \o e.detail, ""}
    ELSE {e.detail}

\* lines 505-506: except Exception as e: raise HTTPException(status_code=500,
\* detail=f"Visual search error: {str(e)}")
HandleException ==
    /\ hpc = "except"
    /\ \E text \in StrOf(exc) :
          response' = [status_code |-> 500, detail |-> "Visual search error: " \o text]
    /\ hpc' = "done"
    /\ UNCHANGED <<visual_engine, upload, exc, rendered_page>>
    /\ UNCHANGED <<avars, fvars, rvars, svars, nvars, lvars>>

NextApi ==
    \/ CheckEngine
    \/ ReadUpload
    \/ CallRanker
    \/ HandleException

SpecApi == InitApi /\ [][NextApi]_vars

\* C20 as stated: for an uploaded PDF, with the engine up, the request ends
\* with a result list and the page rendered for the query is page_number.
C20_AsStated ==
    (/\ hpc = "done"
     /\ visual_engine = "engine"
     /\ upload.file = "pdf"
     /\ upload.page_number < upload.pages)
    => (/\ response.status_code = 200
        /\ rendered_page = upload.page_number)

\* C25 as stated: with visual_engine None the request is answered with
\* status 503 and the detail "Visual search not available".
C25_AsStated ==
    (hpc = "done" /\ visual_engine = "None") =>
        /\ response.status_code = 503
        /\ response.detail = "Visual search not available"

(***************************************************************************)
(* SpecSession: successive analyze_image calls on the analyzer that        *)
(* get_peak_analyzer hands out                                             *)
(***************************************************************************)
MaxCalls == 3     \* analyze_image calls in a session

SessionImages == {Stored(ImageA), Stored(ImageB), Stored(ImageC),
                  Stored(ImageD), Stored(ImageE)}

\* the PeakSet and detection_mode of a returned record
PeakSetOf(f) ==
    [num_peaks |-> f.num_peaks, positions |-> f.positions, heights |-> f.heights,
     widths |-> f.widths, areas |-> f.areas, detection_mode |-> f.detection_mode]
NotReturned == [num_peaks |-> None, positions |-> <<>>, heights |-> <<>>,
                widths |-> <<>>, areas |-> <<>>, detection_mode |-> "none"]

InitSession ==
    /\ AnalyzeIdle
    /\ peak_analyzer = "None"
    /\ calls = 0
    /\ returned = [img \in SessionImages |-> NotReturned]
    /\ FilterIdle
    /\ RankIdle
    /\ ScoreIdle
    /\ ApiIdle
    /\ LabelsIdle

\* get_peak_analyzer() (lines 447-452: the instance is created on first use
\* and has no attributes), then analyze_image(img) is entered: its locals
\* are unset until assigned
Call ==
    /\ apc \in {"idle", "returned"}
    /\ calls < MaxCalls
    /\ peak_analyzer' = "PeakAnalyzer"
    /\ \E img \in SessionImages : image' = img
    /\ apc' = "rung1"
    /\ attempted' = <<>>
    /\ features' = NoFeatures
    /\ label_scene' = NoScene
    /\ UNCHANGED <<peak_info, calls, returned>>
    /\ UNCHANGED <<fvars, rvars, svars, pvars, lvars>>

\* the caller takes the record analyze_image returned
TakeResult ==
    /\ apc = "done"
    /\ returned' = IF returned[image] = NotReturned
                   THEN [returned EXCEPT ![image] = PeakSetOf(features)]
                   ELSE returned
    /\ calls' = calls + 1
    /\ apc' = "returned"
    /\ UNCHANGED <<image, peak_info, attempted, features, label_scene, peak_analyzer>>
    /\ UNCHANGED <<fvars, rvars, svars, pvars, lvars>>

NextSession ==
    \/ Call
    \/ Strict
    \/ Sensitive
    \/ VerySensitive
    \/ UltraSensitive
    \/ UltraSensitiveWide
    \/ Return
    \/ TakeResult

SpecSession == InitSession /\ [][NextSession]_vars

LabelValues ==
    {[a2_val |-> None, f_val |-> None],
     [a2_val |-> 25, f_val |-> 6],
     [a2_val |-> 52, f_val |-> 800]}

LabelledHeights == {<<>>, <<300>>, <<900, 300>>, <<80, 900>>}
LabelledOffsets == {0, 30}

\* what the re-rank loop computes for a pair: the verdict of the hard filter
\* (lines 440-445), the clinical score (453-456) and the combined score (459)
Compared(f1, f2) ==
    LET v    == is_clinically_similar(f1, f2, PermissiveRatio, PermissiveCountDiff)
        peak == calculate_peak_similarity(f1, f2)
    IN  [is_similar   |-> v.ok,
         reason       |-> v.why,
         peak_sim     |-> peak.total,
         peak_details |-> peak,
         hybrid_score |-> HybridScore(DefaultClipWeight, ClipOf(1),
                                      DefaultPeakWeight, peak.total)]

InitLabels ==
    /\ lpc = "input"
    /\ \E a \in LabelledHeights, l \in LabelValues :
          lfeatures1 = WithLabels(ScoreRecord(a, 0, BaseLevel), l)
    /\ \E b \in LabelledHeights, o \in LabelledOffsets, l \in LabelValues :
          lfeatures2 = WithLabels(ScoreRecord(b, o, BaseLevel + 1), l)
    /\ relabel \in LabelValues \X LabelValues
    /\ compared = NoComparison
    /\ recompared = NoComparison
    /\ AnalyzeIdle
    /\ FilterIdle
    /\ RankIdle
    /\ ScoreIdle
    /\ ApiIdle
    /\ SessionIdle

\* the pair as it is
CompareRecords ==
    /\ lpc = "input"
    /\ compared' = Compared(lfeatures1, lfeatures2)
    /\ lpc' = "relabelled"
    /\ UNCHANGED <<lfeatures1, lfeatures2, relabel, recompared>>
    /\ UNCHANGED <<avars, fvars, rvars, svars, pvars, nvars>>

\* the same two records with the labels of relabel
CompareRelabelled ==
    /\ lpc = "relabelled"
    /\ recompared' = Compared(WithLabels(lfeatures1, relabel[1]),
                              WithLabels(lfeatures2, relabel[2]))
    /\ lpc' = "done"
    /\ UNCHANGED <<lfeatures1, lfeatures2, relabel, compared>>
    /\ UNCHANGED <<avars, fvars, rvars, svars, pvars, nvars>>

NextLabels ==
    \/ CompareRecords
    \/ CompareRelabelled

SpecLabels == InitLabels /\ [][NextLabels]_vars

\* C28: two pairs of records that differ only in a2_concentration and
\* f_concentration get the same verdict of is_clinically_similar, the same
\* score and factors of calculate_peak_similarity and the same combined
\* score, so they rank alike.
C28_LabelsIgnored ==
    lpc = "done" =>
        /\ recompared.is_similar = compared.is_similar
        /\ recompared.reason = compared.reason
        /\ recompared.peak_sim = compared.peak_sim
        /\ recompared.peak_details = compared.peak_details
        /\ recompared.hybrid_score = compared.hybrid_score

\* two records with peaks whose labels agree in the first comparison and are
\* far apart in the second, accepted and scored below 1.0 both times
C28_Witness ==
    /\ lpc = "done"
    /\ lfeatures1.num_peaks > 0 /\ lfeatures2.num_peaks > 0
    /\ lfeatures1.a2_concentration = lfeatures2.a2_concentration
    /\ relabel[1].a2_val = 25 /\ relabel[2].a2_val = 52
    /\ relabel[1].f_val # relabel[2].f_val
    /\ compared.is_similar /\ recompared.is_similar
    /\ compared.peak_sim > 0 /\ compared.peak_sim < 100000

====
